---- MODULE Spec2Model ----
(***************************************************************************)
(* CEventServer (xbmc/network/EventServer.cpp): the UDP event server's     *)
(* receive thread (Process/Run), the client map m_clients guarded by       *)
(* m_critSection, and the callers of StartServer, StopServer,              *)
(* RefreshSettings, ExecuteNextAction, GetNumberOfClients, GetButtonCode   *)
(* and GetMousePos.                                                        *)
(*                                                                         *)
(* CEventClient, CEventPacket, CAddress, CThread, CZeroconf and the socket *)
(* classes are not part of EventServer.cpp; they are modelled from their   *)
(* documented contract (the Client, Thread, Zeroconf and Bind operators).   *)
(*                                                                         *)
(* Time: one Tick is one unit of the liveness clock.  The clock advances   *)
(* while the receive thread is blocked in listener.Listen or is outside    *)
(* the receive loop; the other steps of an iteration take no clock time.   *)
(*                                                                         *)
(* StopServer(bWait): StopThread(true) only keeps the owner from making    *)
(* another call until the thread has finished, which the owner is free to  *)
(* do after StopThread(false) as well, so the wait adds no behaviour.      *)
(***************************************************************************)
EXTENDS Integers, Sequences, FiniteSets, TLC

\* ------------------------------------------------------------------ bounds
\* valid datagrams received over one behaviour (each gets a fresh id)
MaxPackets == 2
\* ticks without a packet after which CEventClient::Alive() is false
LivenessWindow == 2

\* --------------------------------------------------------- program constants
AT_EXEC_BUILTIN == 1
AT_BUTTON == 2
\* m_iMaxClients when the setting is negative
DefaultMaxClients == 20
\* port_range when the setting is outside [1,100]
DefaultPortRange == 10
MaxPortRange == 100
\* the largest port StartServer asserts m_iPort to be
MaxPort == 65535

NULL == "NULL"
\* no datagram, no action
NoDatagram == [valid |-> FALSE, token |-> 0, addr |-> "", kind |-> "none", id |-> 0]
NoAction == [id |-> 0, type |-> 0]
NoOwner == "free"
\* the threads that call ExecuteNextAction
Callers == {"c1", "c2"}

\* ------------------------------------------------------------ input domains
\* client tokens a packet header may carry (0: none)
Tokens == {0, 5, 7}
\* sender addresses
Addrs == {"10.0.0.5", "10.0.0.6"}
\* payloads: "other" decodes to no action
Kinds == {"other", "exec", "button"}
\* values of services.esmaxclients
MaxClientsSettings == {-1, 1}
\* values of services.esport
PortSettings == {9777}
\* values of services.esportrange
PortRangeSettings == {0, 2, 101}
\* ports of the scan range that may be free, as offsets from m_iPort
BindOffsets == {0}
\* values of services.esport outside the range of ports as well
AnyPortSettings == {0, 9777}
\* the configured port is taken and the next one is free
LaterBindOffsets == {0, 1}

\* values an int member the constructor does not assign may hold
UninitInts == {-1, 0}

PacketIds == 1..MaxPackets

VARIABLES
    m_pSocket,          \* NULL or "socket"
    boundPort,          \* the port the socket is bound to, 0 when it is not
    m_pPacketBuffer,    \* NULL or "buffer"
    m_bStop,            \* CThread::m_bStop
    m_bRunning,
    m_bRefreshSettings,
    m_iPort,
    m_iMaxClients,
    m_clients,          \* token -> session
    m_critSection,      \* owner of the lock, or NoOwner
    configured,         \* StartServer has assigned m_iPort and m_iMaxClients
    aborted,            \* a failed assertion has aborted the host process
    threadAlive,        \* the CThread has been created and has not finished
    pc,                 \* position of the receive thread
    dgram,              \* the datagram read in this iteration, until ProcessEvents
    routed,             \* what ProcessPacket did in this iteration
    iterLog,            \* the calls Run has made in this iteration, in order
    removed,            \* the sessions the last RefreshClients or Cleanup destroyed
    nextId,             \* id of the next valid datagram
    lastRun,            \* how the last Run ended, "none" while one is under way
    published,          \* zeroconf: service id -> port
    cpc,                \* caller -> position in ExecuteNextAction
    cact,               \* caller -> actionEvent
    cret,               \* caller -> what its last ExecuteNextAction returned
    cnum,               \* caller -> what its last GetNumberOfClients returned
    executed,           \* action id -> the results of the executor's runs on it
    produced            \* ids of the actions ever put in an action queue

vars == <<m_pSocket, boundPort, m_pPacketBuffer, m_bStop, m_bRunning, m_bRefreshSettings,
          m_iPort, m_iMaxClients, m_clients, m_critSection, configured, aborted,
          threadAlive, pc, dgram, routed, iterLog, removed, nextId, lastRun,
          published, cpc, cact, cret, cnum, executed, produced>>

serverVars == <<m_pSocket, boundPort, m_pPacketBuffer, m_bStop, m_bRunning, m_bRefreshSettings,
                m_iPort, m_iMaxClients, configured, aborted, published>>
threadVars == <<threadAlive, pc, dgram, routed, iterLog, removed, nextId, lastRun>>
callerVars == <<cpc, cact, cret, cnum, executed>>

\* ------------------------------------------------------------------ helpers
EmptyMap == [k \in {} |-> NULL]

Remove(f, k) == [x \in DOMAIN f \ {k} |-> f[x]]

Put(f, k, v) == [x \in DOMAIN f \cup {k} |-> IF x = k THEN v ELSE f[x]]

MinOf(S) == CHOOSE x \in S : \A y \in S : x <= y

RECURSIVE SortedSeq(_)
SortedSeq(S) ==
    IF S = {} THEN <<>> ELSE <<MinOf(S)>> \o SortedSeq(S \ {MinOf(S)})

\* the keys of a std::map in iteration order
Keys(clients) == SortedSeq(DOMAIN clients)

\* ---------------------------------------------------------------- CAddress
\* CAddress::ULong(): the IPv4 address as a number (here its last octet);
\* it fits the unsigned int it is assigned to
AddrULong(addr) ==
    CASE addr = "10.0.0.5" -> 5
      [] addr = "10.0.0.6" -> 6
      [] OTHER -> 0

\* ------------------------------------------------------------ CEventClient
\* new CEventClient(addr)
ClientNew(addr) ==
    [idle |-> 0, packets |-> <<>>, actions |-> <<>>, refreshed |-> 0,
     processed |-> 0]

\* the CEventPacket built from a datagram
Packet(d) == [id |-> d.id, kind |-> d.kind]

\* CEventClient::AddPacket: append, reset the timeout
ClientAddPacket(s, p) == [s EXCEPT !.packets = Append(@, p), !.idle = 0]

\* CEventClient::Alive
ClientAlive(s) == s.idle < LivenessWindow

\* the actions one packet decodes into
ClientDecode(p) ==
    CASE p.kind = "exec" -> <<[id |-> p.id, type |-> AT_EXEC_BUILTIN]>>
      [] p.kind = "button" -> <<[id |-> p.id, type |-> AT_BUTTON]>>
      [] OTHER -> <<>>

RECURSIVE ClientDecodeAll(_)
ClientDecodeAll(ps) ==
    IF ps = <<>> THEN <<>> ELSE ClientDecode(Head(ps)) \o ClientDecodeAll(Tail(ps))

\* CEventClient::ProcessEvents: drain the packet queue into the action queue
ClientProcessEvents(s) ==
    [s EXCEPT !.packets = <<>>, !.actions = @ \o ClientDecodeAll(s.packets),
              !.processed = @ + 1]

\* CEventClient::RefreshSettings
ClientRefreshSettings(s) == [s EXCEPT !.refreshed = @ + 1]

\* CEventClient::GetNextAction found an action
ClientHasAction(s) == s.actions # <<>>

\* the session after CEventClient::GetNextAction popped its oldest action
ClientPopAction(s) == [s EXCEPT !.actions = Tail(@)]

\* the time since the last packet, one tick later
ClientTick(s) ==
    [s EXCEPT !.idle = IF @ < LivenessWindow THEN @ + 1 ELSE @]

\* ---------------------------------------------------------------- CZeroconf
ZeroconfPublish(pub, id, port) ==
    IF id \in DOMAIN pub THEN pub ELSE Put(pub, id, port)

ZeroconfRemove(pub, id) == Remove(pub, id)

\* ------------------------------------------------- CEventServer: the client map
\* mutant: the sender address is used even when the packet carries a token
RoutingTokenAddrOnly(token, addr) == AddrULong(addr)

\* ProcessPacket: the key a valid packet is filed under
RoutingToken(token, addr) == IF token # 0 THEN token ELSE AddrULong(addr)

\* m_clients.size() >= (unsigned int)m_iMaxClients
AtCapacity(clients, maxClients) ==
    IF maxClients < 0 THEN FALSE ELSE Cardinality(DOMAIN clients) >= maxClients

\* mutant: the capacity test comes before the lookup
ProcessPacketCapacityFirst(clients, maxClients, d) ==
    IF ~d.valid \/ AtCapacity(clients, maxClients) THEN clients
    ELSE LET clientToken == RoutingToken(d.token, d.addr) IN
         IF clientToken \notin DOMAIN clients
         THEN Put(clients, clientToken, ClientAddPacket(ClientNew(d.addr), Packet(d)))
         ELSE [clients EXCEPT ![clientToken] = ClientAddPacket(@, Packet(d))]

\* mutant: IsValid() is not consulted
ProcessPacketUnchecked(clients, maxClients, d) ==
    LET clientToken == RoutingToken(d.token, d.addr) IN
    IF clientToken \notin DOMAIN clients
    THEN IF AtCapacity(clients, maxClients)
         THEN clients
         ELSE Put(clients, clientToken, ClientAddPacket(ClientNew(d.addr), Packet(d)))
    ELSE [clients EXCEPT ![clientToken] = ClientAddPacket(@, Packet(d))]

\* ProcessPacket(addr, pSize) on datagram d
ProcessPacketOp(clients, maxClients, d) ==
    IF ~d.valid THEN clients
    ELSE LET clientToken == RoutingToken(d.token, d.addr) IN
         IF clientToken \notin DOMAIN clients
         THEN IF AtCapacity(clients, maxClients)
              THEN clients
              ELSE Put(clients, clientToken, ClientAddPacket(ClientNew(d.addr), Packet(d)))
         ELSE [clients EXCEPT ![clientToken] = ClientAddPacket(@, Packet(d))]

\* Cleanup: erase begin() until the map is empty
RECURSIVE CleanupClients(_)
CleanupClients(clients) ==
    IF DOMAIN clients = {} THEN clients
    ELSE CleanupClients(Remove(clients, MinOf(DOMAIN clients)))

\* mutant: after an erase the loop goes on behind the erased entry's successor
RECURSIVE RefreshScanSkip(_, _, _)
RefreshScanSkip(clients, keys, refreshSettings) ==
    IF keys = <<>> THEN clients
    ELSE LET k == Head(keys) IN
         IF ~ClientAlive(clients[k])
         THEN RefreshScanSkip(Remove(clients, k),
                              IF Len(keys) > 1 THEN Tail(Tail(keys)) ELSE <<>>,
                              refreshSettings)
         ELSE RefreshScanSkip(IF refreshSettings
                              THEN [clients EXCEPT ![k] = ClientRefreshSettings(@)]
                              ELSE clients,
                              Tail(keys), refreshSettings)

\* mutant: the Alive() test is inverted
RECURSIVE RefreshScanInverted(_, _, _)
RefreshScanInverted(clients, keys, refreshSettings) ==
    IF keys = <<>> THEN clients
    ELSE LET k == Head(keys) IN
         IF ClientAlive(clients[k])
         THEN LET erased == Remove(clients, k) IN
              RefreshScanInverted(erased, Keys(erased), refreshSettings)
         ELSE RefreshScanInverted(clients, Tail(keys), refreshSettings)

\* RefreshClients: the loop from iterator position keys; an erase restarts it
\* at begin()
RECURSIVE RefreshScan(_, _, _)
RefreshScan(clients, keys, refreshSettings) ==
    IF keys = <<>> THEN clients
    ELSE LET k == Head(keys) IN
         IF ~ClientAlive(clients[k])
         THEN LET erased == Remove(clients, k) IN
              RefreshScan(erased, Keys(erased), refreshSettings)
         ELSE RefreshScan(IF refreshSettings
                          THEN [clients EXCEPT ![k] = ClientRefreshSettings(@)]
                          ELSE clients,
                          Tail(keys), refreshSettings)

\* RefreshClients; refreshed counts the RefreshSettings calls of this sweep
RefreshClientsOp(clients, refreshSettings) ==
    RefreshScan([k \in DOMAIN clients |-> [clients[k] EXCEPT !.refreshed = 0]],
                Keys(clients), refreshSettings)

\* mutant: the loop starts behind begin()
ProcessEventsSkipFirst(clients) ==
    [k \in DOMAIN clients |->
        IF k = MinOf(DOMAIN clients)
        THEN [clients[k] EXCEPT !.processed = 0]
        ELSE ClientProcessEvents([clients[k] EXCEPT !.processed = 0])]

\* ProcessEvents: every session's ProcessEvents, once; processed counts the
\* ProcessEvents calls a session gets in this pass
ProcessEventsOp(clients) ==
    [k \in DOMAIN clients |->
        ClientProcessEvents([clients[k] EXCEPT !.processed = 0])]

\* ExecuteNextAction: the keys of the sessions GetNextAction succeeds on
WithAction(clients) == {k \in DOMAIN clients : ClientHasAction(clients[k])}

\* mutant: the lock is kept while the action is executed
LeaveNot(owner, who) == owner

\* mutant: the constructor of CSingleLock does not take the lock
LockNot(owner, who) == owner

\* CSingleLock lock(m_critSection), once the lock is free
Lock(owner, who) == who

\* lock.Leave()
Leave(owner, who) == IF owner = who THEN NoOwner ELSE owner

\* ~CSingleLock
Unlock(owner, who) == IF owner = who THEN NoOwner ELSE owner

\* the ids of the actions in the action queues
QueuedIds(clients) ==
    UNION {{clients[k].actions[i].id : i \in 1..Len(clients[k].actions)} :
           k \in DOMAIN clients}

\* what a ProcessPacket call did to the map: nothing for an invalid packet
\* ("invalid") or a refused one ("rejected"), or the key it filed the packet
\* under, in a session it created ("new") or found ("existing")
NoRoute == [outcome |-> "none", key |-> 0]

Touched(before, after) ==
    {k \in DOMAIN after : k \notin DOMAIN before \/ after[k] # before[k]}

Outcome(before, after, d) ==
    IF after = before
    THEN [outcome |-> IF d.valid THEN "rejected" ELSE "invalid", key |-> 0]
    ELSE LET k == MinOf(Touched(before, after)) IN
         [outcome |-> IF k \in DOMAIN before THEN "existing" ELSE "new", key |-> k]

\* the sessions a call destroyed: those that were alive and those that were not
NoneRemoved == [by |-> "none", alive |-> {}, dead |-> {}]

Removed(by, before, after) ==
    LET gone == DOMAIN before \ DOMAIN after IN
    [by |-> by,
     alive |-> {k \in gone : ClientAlive(before[k])},
     dead |-> {k \in gone : ~ClientAlive(before[k])}]

\* ---------------------------------------------------------------- Init
\* the state the constructor leaves; m_iPort and m_iMaxClients are not
\* initialised by it
Init ==
    /\ m_pSocket = NULL
    /\ boundPort = 0
    /\ m_pPacketBuffer = NULL
    /\ m_bStop = FALSE
    /\ m_bRunning = FALSE
    /\ m_bRefreshSettings = FALSE
    /\ m_iPort \in UninitInts
    /\ m_iMaxClients \in UninitInts
    /\ m_clients = EmptyMap
    /\ m_critSection = NoOwner
    /\ configured = FALSE
    /\ aborted = FALSE
    /\ threadAlive = FALSE
    /\ pc = "none"
    /\ dgram = NoDatagram
    /\ routed = NoRoute
    /\ iterLog = <<>>
    /\ removed = NoneRemoved
    /\ nextId = 1
    /\ lastRun = "none"
    /\ published = EmptyMap
    /\ cpc = [c \in Callers |-> "idle"]
    /\ cact = [c \in Callers |-> NoAction]
    /\ cret = [c \in Callers |-> "none"]
    /\ cnum = [c \in Callers |-> -1]
    /\ executed = [i \in PacketIds |-> <<>>]
    /\ produced = {}

\* ------------------------------------------------------- the owner's calls
\* assert(m_iPort <= 65535 && m_iPort >= 1)
PortAsserted(port) == port <= MaxPort /\ port >= 1

\* mutant: Create starts a thread whether or not one is running
CreateSpawnsAlways(alive) == TRUE

\* CThread::Create starts a thread unless the object's thread is running
CreateSpawns(alive) == ~alive

\* StartServer, with the settings' values in the given sets
StartServer(ports, maxima) ==
    /\ ~aborted
    /\ m_critSection = NoOwner
    /\ IF m_bRunning
       THEN UNCHANGED <<m_iPort, m_iMaxClients, configured, aborted, threadAlive,
                        pc, m_bStop, lastRun>>
       ELSE \E port \in ports, maxClients \in maxima :
               /\ m_iPort' = port
               /\ \/ \* the assertion fails, in a build that has assertions
                     /\ ~PortAsserted(port)
                     /\ aborted' = TRUE
                     /\ UNCHANGED <<m_iMaxClients, configured, threadAlive, pc,
                                    m_bStop, lastRun>>
                  \/ \* the assertion holds, or the build has none
                     /\ m_iMaxClients' = IF maxClients < 0 THEN DefaultMaxClients
                                         ELSE maxClients
                     /\ configured' = TRUE
                     /\ lastRun' = "none"
                     /\ UNCHANGED aborted
                     /\ IF CreateSpawns(threadAlive)
                        THEN /\ threadAlive' = TRUE
                             /\ pc' = "process"
                             /\ m_bStop' = FALSE
                        ELSE UNCHANGED <<threadAlive, pc, m_bStop>>
    /\ UNCHANGED <<m_pSocket, boundPort, m_pPacketBuffer, m_bRunning, m_bRefreshSettings,
                   m_clients, m_critSection, dgram, routed, iterLog, removed,
                   nextId, published, callerVars, produced>>

\* RefreshSettings: the flag RefreshClients acts on
RefreshSettings ==
    /\ ~aborted
    /\ m_critSection = NoOwner
    /\ ~m_bRefreshSettings
    /\ m_bRefreshSettings' = TRUE
    /\ UNCHANGED <<m_pSocket, boundPort, m_pPacketBuffer, m_bStop, m_bRunning,
                   m_iPort, m_iMaxClients, configured, aborted, published, m_clients,
                   m_critSection, threadVars, callerVars, produced>>

\* StopServer(bWait): RemoveService, then CThread::StopThread(bWait)
StopServer ==
    /\ ~aborted
    /\ published' = ZeroconfRemove(published, "services.eventserver")
    /\ m_bStop' = TRUE
    /\ UNCHANGED <<m_pSocket, boundPort, m_pPacketBuffer, m_bRunning, m_bRefreshSettings,
                   m_iPort, m_iMaxClients, m_clients, m_critSection, configured, aborted,
                   threadVars, callerVars, produced>>

\* ------------------------------------------------------ the receive thread
\* mutant: Process makes one Run and returns
ProcessLoopOnce(stop, last) == ~stop /\ last = "none"

\* Process: while (!m_bStop), after a Run that ended as last says
ProcessLoopTest(stop, last) == ~stop

\* mutant: the receive loop does not test m_bStop
RunLoopForever(stop) == TRUE

\* Run: while (!m_bStop)
RunLoopTest(stop) == ~stop

\* Process: the while (!m_bStop) test, before the first Run and after each
T_Process ==
    /\ ~aborted
    /\ pc = "process"
    /\ IF ProcessLoopTest(m_bStop, lastRun)
       THEN /\ pc' = "run"
            /\ UNCHANGED threadAlive
       ELSE /\ pc' = "none"
            /\ threadAlive' = FALSE
    /\ removed' = NoneRemoved
    /\ UNCHANGED <<serverVars, m_clients, m_critSection, dgram, routed, iterLog,
                   nextId, lastRun, callerVars, produced>>

\* Cleanup: close and delete the socket, free the buffer, empty the map
Cleanup ==
    /\ m_critSection = NoOwner
    /\ m_pSocket' = NULL
    /\ boundPort' = 0
    /\ m_pPacketBuffer' = NULL
    /\ m_clients' = CleanupClients(m_clients)
    /\ removed' = Removed("cleanup", m_clients, m_clients')

\* Run: Cleanup() on entry
T_RunCleanup ==
    /\ ~aborted
    /\ pc = "run"
    /\ Cleanup
    /\ pc' = "setup"
    /\ lastRun' = "none"
    /\ UNCHANGED <<m_bStop, m_bRunning, m_bRefreshSettings, m_iPort, m_iMaxClients,
                   configured, aborted, published, m_critSection, threadAlive, dgram,
                   routed, iterLog, nextId, callerVars, produced>>

\* the port range Run hands to Bind
PortRange(setting) ==
    IF setting < 1 \/ setting > MaxPortRange THEN DefaultPortRange ELSE setting

\* Run: socket, buffer, bind, publish, m_bRunning = true
T_Setup(offsets) ==
    /\ ~aborted
    /\ pc = "setup"
    /\ \/ \* CreateUDPSocket fails
          /\ pc' = "process"
          /\ lastRun' = "abort"
          /\ UNCHANGED <<m_pSocket, boundPort, m_pPacketBuffer, published,
                         m_bRunning>>
       \/ \* malloc fails
          /\ m_pSocket' = "socket"
          /\ pc' = "process"
          /\ lastRun' = "abort"
          /\ UNCHANGED <<boundPort, m_pPacketBuffer, published, m_bRunning>>
       \/ \* Bind fails
          /\ m_pSocket' = "socket"
          /\ m_pPacketBuffer' = "buffer"
          /\ pc' = "process"
          /\ lastRun' = "abort"
          /\ UNCHANGED <<boundPort, published, m_bRunning>>
       \/ \* Bind succeeds on a port of the scan range
          \E setting \in PortRangeSettings, off \in offsets :
             /\ off <= PortRange(setting)
             /\ m_pSocket' = "socket"
             /\ boundPort' = m_iPort + off
             /\ m_pPacketBuffer' = "buffer"
             /\ published' = ZeroconfPublish(published, "servers.eventserver", m_iPort)
             /\ m_bRunning' = TRUE
             /\ pc' = "loop"
             /\ UNCHANGED lastRun
    /\ removed' = NoneRemoved
    /\ UNCHANGED <<m_bStop, m_bRefreshSettings, m_iPort, m_iMaxClients, configured, aborted,
                   m_clients, m_critSection, threadAlive, dgram, routed, iterLog,
                   nextId, callerVars, produced>>

\* Run: the while (!m_bStop) test of the receive loop
T_LoopCheck ==
    /\ ~aborted
    /\ pc = "loop"
    /\ pc' = IF RunLoopTest(m_bStop) THEN "listen" ELSE "exit"
    /\ lastRun' = IF RunLoopTest(m_bStop) THEN lastRun ELSE "stopped"
    /\ routed' = NoRoute
    /\ iterLog' = <<>>
    /\ removed' = NoneRemoved
    /\ UNCHANGED <<serverVars, m_clients, m_critSection, threadAlive, dgram, nextId,
                   callerVars, produced>>

\* the datagrams Read may deliver
Datagrams(tokens, kinds, id) ==
    {[valid |-> TRUE, token |-> t, addr |-> a, kind |-> k, id |-> id] :
        t \in tokens, a \in Addrs, k \in kinds}

InvalidDatagrams(tokens) ==
    {[valid |-> FALSE, token |-> t, addr |-> a, kind |-> "other", id |-> 0] :
        t \in tokens, a \in Addrs}

\* Run: listener.Listen, m_pSocket->Read and ProcessPacket(addr, packetSize),
\* with the senders' tokens and payloads in the given sets.  Read touches
\* nothing another thread sees, so the datagram is chosen in the step that
\* routes it; ProcessPacket takes the lock for a valid packet only.
T_Receive(tokens, kinds) ==
    /\ ~aborted
    /\ pc = "listen"
    /\ \/ \* timeout, or Read returns -1
          /\ pc' = "events"
          /\ UNCHANGED <<dgram, nextId, iterLog, m_clients, routed, lastRun>>
       \/ \* a datagram that parses as a valid packet
          /\ nextId <= MaxPackets
          /\ m_critSection = NoOwner
          /\ \E d \in Datagrams(tokens, kinds, nextId) :
                /\ dgram' = d
                /\ m_clients' = ProcessPacketOp(m_clients, m_iMaxClients, d)
                /\ routed' = Outcome(m_clients, m_clients', d)
          /\ nextId' = nextId + 1
          /\ iterLog' = iterLog \o <<"Read", "ProcessPacket">>
          /\ pc' = "events"
          /\ UNCHANGED lastRun
       \/ \* a datagram that does not
          /\ \E d \in InvalidDatagrams(tokens) :
                /\ dgram' = d
                /\ m_clients' = ProcessPacketOp(m_clients, m_iMaxClients, d)
                /\ routed' = Outcome(m_clients, m_clients', d)
          /\ iterLog' = iterLog \o <<"Read", "ProcessPacket">>
          /\ pc' = "events"
          /\ UNCHANGED <<nextId, lastRun>>
       \/ \* an exception: catch (...) breaks out of the loop
          /\ pc' = "exit"
          /\ lastRun' = "exception"
          /\ UNCHANGED <<dgram, nextId, iterLog, m_clients, routed>>
    /\ UNCHANGED <<serverVars, m_critSection, threadAlive, removed, callerVars,
                   produced>>

\* Run: ProcessEvents()
T_ProcessEvents ==
    /\ ~aborted
    /\ pc = "events"
    /\ m_critSection = NoOwner
    /\ m_clients' = ProcessEventsOp(m_clients)
    /\ produced' = produced \cup QueuedIds(m_clients')
    /\ dgram' = NoDatagram
    /\ iterLog' = Append(iterLog, "ProcessEvents")
    /\ pc' = "refresh"
    /\ UNCHANGED <<serverVars, m_critSection, threadAlive, routed, removed, nextId,
                   lastRun, callerVars>>

\* Run: RefreshClients()
T_RefreshClients ==
    /\ ~aborted
    /\ pc = "refresh"
    /\ m_critSection = NoOwner
    /\ m_clients' = RefreshClientsOp(m_clients, m_bRefreshSettings)
    /\ m_bRefreshSettings' = FALSE
    /\ removed' = Removed("sweep", m_clients, m_clients')
    /\ iterLog' = Append(iterLog, "RefreshClients")
    /\ pc' = "loop"
    /\ UNCHANGED <<m_pSocket, boundPort, m_pPacketBuffer, m_bStop, m_bRunning, m_iPort,
                   m_iMaxClients, configured, aborted, published, m_critSection, threadAlive,
                   dgram, routed, nextId, lastRun, callerVars, produced>>

\* Run: m_bRunning = false after the loop
T_Stopped ==
    /\ ~aborted
    /\ pc = "exit"
    /\ m_bRunning' = FALSE
    /\ pc' = "endcleanup"
    /\ UNCHANGED <<m_pSocket, boundPort, m_pPacketBuffer, m_bStop, m_bRefreshSettings, m_iPort,
                   m_iMaxClients, configured, aborted, published, m_clients, m_critSection,
                   threadAlive, dgram, routed, iterLog, removed, nextId, lastRun,
                   callerVars, produced>>

\* Run: the final Cleanup(); Process then sleeps unless stopped
T_EndCleanup ==
    /\ ~aborted
    /\ pc = "endcleanup"
    /\ Cleanup
    /\ pc' = "process"
    /\ UNCHANGED <<m_bStop, m_bRunning, m_bRefreshSettings, m_iPort, m_iMaxClients,
                   configured, aborted, published, m_critSection, threadAlive, dgram,
                   routed, iterLog, nextId, lastRun, callerVars, produced>>

\* one unit of the liveness clock passes while the thread waits in Listen
Tick ==
    /\ ~aborted
    /\ pc = "listen"
    /\ \E k \in DOMAIN m_clients : ClientAlive(m_clients[k])
    /\ m_clients' = [k \in DOMAIN m_clients |-> ClientTick(m_clients[k])]
    /\ UNCHANGED <<serverVars, m_critSection, threadVars, callerVars,
                   produced>>

\* ------------------------------------------------------- ExecuteNextAction
\* the value a call returned, as cret records it
Ret(b) == IF b THEN "true" ELSE "false"

\* CSingleLock lock(m_critSection)
ENA_Enter(c) ==
    /\ ~aborted
    /\ cpc[c] = "idle"
    /\ m_critSection = NoOwner
    /\ m_critSection' = Lock(m_critSection, c)
    /\ cpc' = [cpc EXCEPT ![c] = "scan"]
    /\ UNCHANGED <<serverVars, m_clients, threadVars, cact, cret, cnum,
                   executed, produced>>

\* the scan of m_clients in key order: the first session GetNextAction
\* succeeds on gives up its oldest action and the lock is left; with no such
\* session the call returns false
ENA_Scan(c) ==
    /\ ~aborted
    /\ cpc[c] = "scan"
    /\ IF WithAction(m_clients) # {}
       THEN LET k == MinOf(WithAction(m_clients)) IN
            /\ cact' = [cact EXCEPT ![c] = Head(m_clients[k].actions)]
            /\ m_clients' = [m_clients EXCEPT ![k] = ClientPopAction(@)]
            /\ m_critSection' = Leave(m_critSection, c)
            /\ cpc' = [cpc EXCEPT ![c] = "exec"]
            /\ UNCHANGED cret
       ELSE /\ cret' = [cret EXCEPT ![c] = Ret(FALSE)]
            /\ m_critSection' = Unlock(m_critSection, c)
            /\ cpc' = [cpc EXCEPT ![c] = "idle"]
            /\ UNCHANGED <<cact, m_clients>>
    /\ UNCHANGED <<serverVars, threadVars, cnum, executed, produced>>

\* mutant: ret keeps its initial value
ReturnValueInitial(actionEvent, ok) == TRUE

\* ret of ExecuteNextAction for an executor that reported ok
ReturnValue(actionEvent, ok) ==
    CASE actionEvent.type = AT_EXEC_BUILTIN -> ok
      [] actionEvent.type = AT_BUTTON -> ok
      [] OTHER -> TRUE

\* mutant: case AT_EXEC_BUILTIN falls through into case AT_BUTTON
ExecutorRunsFallThrough(actionEvent, ok) ==
    CASE actionEvent.type = AT_EXEC_BUILTIN -> <<ok, ok>>
      [] actionEvent.type = AT_BUTTON -> <<ok>>
      [] OTHER -> <<>>

\* the results of the executor runs the switch makes on actionEvent
ExecutorRuns(actionEvent, ok) ==
    CASE actionEvent.type = AT_EXEC_BUILTIN -> <<ok>>
      [] actionEvent.type = AT_BUTTON -> <<ok>>
      [] OTHER -> <<>>

\* the switch on actionEvent.actionType: CBuiltins::Execute or
\* g_application.OnAction runs, and its result is returned
ENA_Execute(c) ==
    /\ ~aborted
    /\ cpc[c] = "exec"
    /\ \E ok \in BOOLEAN :
          /\ executed' = [executed EXCEPT ![cact[c].id] = @ \o ExecutorRuns(cact[c], ok)]
          /\ cret' = [cret EXCEPT ![c] = Ret(ReturnValue(cact[c], ok))]
    /\ cact' = [cact EXCEPT ![c] = NoAction]
    /\ m_critSection' = Unlock(m_critSection, c)
    /\ cpc' = [cpc EXCEPT ![c] = "idle"]
    /\ UNCHANGED <<serverVars, m_clients, threadVars, cnum, produced>>

\* ------------------- GetNumberOfClients, GetButtonCode and GetMousePos
\* CSingleLock lock(m_critSection) of the three
Get_Enter(c) ==
    /\ ~aborted
    /\ cpc[c] = "idle"
    /\ m_critSection = NoOwner
    /\ m_critSection' = Lock(m_critSection, c)
    /\ cpc' = [cpc EXCEPT ![c] = "read"]
    /\ UNCHANGED <<serverVars, m_clients, threadVars, cact, cret, cnum,
                   executed, produced>>

\* GetNumberOfClients: return m_clients.size()
GetNumberOfClients(c) ==
    /\ ~aborted
    /\ cpc[c] = "read"
    /\ cnum' = [cnum EXCEPT ![c] = Cardinality(DOMAIN m_clients)]
    /\ m_critSection' = Unlock(m_critSection, c)
    /\ cpc' = [cpc EXCEPT ![c] = "idle"]
    /\ UNCHANGED <<serverVars, m_clients, threadVars, cact, cret, executed,
                   produced>>

\* GetButtonCode and GetMousePos: the scan of m_clients in key order up to the
\* first session that reports a button code or a mouse position; what a
\* session reports is not part of this model
GetFromClients(c) ==
    /\ ~aborted
    /\ cpc[c] = "read"
    /\ m_critSection' = Unlock(m_critSection, c)
    /\ cpc' = [cpc EXCEPT ![c] = "idle"]
    /\ UNCHANGED <<serverVars, m_clients, threadVars, cact, cret, cnum,
                   executed, produced>>

\* ------------------------------------------------------------------- Next
Next ==
    \/ StartServer(PortSettings, MaxClientsSettings)
    \/ StopServer
    \/ T_Process
    \/ T_RunCleanup
    \/ T_Setup(BindOffsets)
    \/ T_LoopCheck
    \/ T_Receive(Tokens, Kinds)
    \/ T_ProcessEvents
    \/ T_RefreshClients
    \/ T_Stopped
    \/ T_EndCleanup
    \/ Tick
    \/ \E c \in {"c1"} : ENA_Enter(c) \/ ENA_Scan(c) \/ ENA_Execute(c)

\* every sender, one thread calling ExecuteNextAction
Spec == Init /\ [][Next]_vars

NextDispatch ==
    \/ StartServer(PortSettings, MaxClientsSettings)
    \/ StopServer
    \/ T_Process
    \/ T_RunCleanup
    \/ T_Setup(BindOffsets)
    \/ T_LoopCheck
    \/ T_Receive({0}, {"exec"})
    \/ T_ProcessEvents
    \/ T_RefreshClients
    \/ T_Stopped
    \/ T_EndCleanup
    \/ Tick
    \/ \E c \in Callers : ENA_Enter(c) \/ ENA_Scan(c) \/ ENA_Execute(c)

\* senders without a token whose packets all carry an action, two threads
\* calling ExecuteNextAction
SpecDispatch == Init /\ [][NextDispatch]_vars

NextOwner ==
    \/ StartServer(AnyPortSettings, MaxClientsSettings)
    \/ StopServer
    \/ RefreshSettings
    \/ T_Process
    \/ T_RunCleanup
    \/ T_Setup(LaterBindOffsets)
    \/ T_LoopCheck
    \/ T_Receive({0}, {"other"})
    \/ T_ProcessEvents
    \/ T_RefreshClients
    \/ T_Stopped
    \/ T_EndCleanup
    \/ Tick

\* the owner's calls with every value of the settings, a configured port
\* that may be taken, senders without a token and no caller of
\* ExecuteNextAction
SpecOwner == Init /\ [][NextOwner]_vars

NextStop ==
    \/ StartServer(PortSettings, MaxClientsSettings)
    \/ StopServer
    \/ T_Process
    \/ T_RunCleanup
    \/ T_Setup(BindOffsets)
    \/ T_LoopCheck
    \/ T_Receive({0}, {"exec"})
    \/ T_ProcessEvents
    \/ T_RefreshClients
    \/ T_Stopped
    \/ T_EndCleanup
    \/ Tick
    \/ ENA_Enter("c1")
    \/ ENA_Scan("c1")
    \/ ENA_Execute("c1")

\* the receive thread is scheduled: a step of it that waits for nothing is
\* taken (Listen returns within its timeout), a step that takes m_critSection
\* is taken when the lock keeps becoming free, and a caller inside
\* ExecuteNextAction's locked scan finishes it
ThreadFairness ==
    /\ WF_vars(T_Process)
    /\ WF_vars(T_Setup(BindOffsets))
    /\ WF_vars(T_LoopCheck)
    /\ WF_vars(T_Receive({0}, {"exec"}))
    /\ WF_vars(T_Stopped)
    /\ SF_vars(T_RunCleanup)
    /\ SF_vars(T_ProcessEvents)
    /\ SF_vars(T_RefreshClients)
    /\ SF_vars(T_EndCleanup)
    /\ WF_vars(ENA_Scan("c1"))

\* senders without a token, one thread calling ExecuteNextAction, and a
\* receive thread that is scheduled
SpecStop == Init /\ [][NextStop]_vars /\ ThreadFairness

NextAccess ==
    \/ StartServer(PortSettings, MaxClientsSettings)
    \/ StopServer
    \/ T_Process
    \/ T_RunCleanup
    \/ T_Setup(BindOffsets)
    \/ T_LoopCheck
    \/ T_Receive({0}, {"exec"})
    \/ T_ProcessEvents
    \/ T_RefreshClients
    \/ T_Stopped
    \/ T_EndCleanup
    \/ Tick
    \/ ENA_Enter("c1")
    \/ ENA_Scan("c1")
    \/ ENA_Execute("c1")
    \/ Get_Enter("c2")
    \/ GetNumberOfClients("c2")
    \/ GetFromClients("c2")

\* senders without a token, one thread calling ExecuteNextAction and one
\* calling GetNumberOfClients, GetButtonCode and GetMousePos
SpecAccess == Init /\ [][NextAccess]_vars

\* ------------------------------------------------------------------ claims
NumClients == Cardinality(DOMAIN m_clients)

\* C1: once StartServer has configured the maximum, the number of sessions in
\* the map never exceeds m_iMaxClients, in every reachable state.
C1_SizeWithinMax == configured => NumClients <= m_iMaxClients

\* a step of the receive thread that runs ProcessPacket on datagram dgram'
RouteStep == pc = "listen" /\ pc' = "events" /\ dgram' # NoDatagram

\* the routing token the packet header and sender address stand for
TokenOf(d) == IF d.token # 0 THEN d.token ELSE AddrULong(d.addr)

\* the sessions other than t are what they were
OthersSame(t) ==
    /\ DOMAIN m_clients' \ {t} = DOMAIN m_clients \ {t}
    /\ \A k \in DOMAIN m_clients \ {t} : m_clients'[k] = m_clients[k]

\* C2: ProcessPacket on a valid packet P with routing token T: with no session
\* for T and size < max, a session for T is inserted and holds exactly P; with
\* no session for T and size >= max, the map is unchanged; with a session for
\* T, P is appended to it, full or not.  No other session changes.
C2_RouteValid ==
    [][(RouteStep /\ dgram'.valid) =>
        LET T == TokenOf(dgram')
            P == [id |-> dgram'.id, kind |-> dgram'.kind]
        IN  /\ (T \notin DOMAIN m_clients /\ NumClients < m_iMaxClients) =>
                  /\ T \in DOMAIN m_clients'
                  /\ m_clients'[T].packets = <<P>>
                  /\ m_clients'[T].actions = <<>>
                  /\ OthersSame(T)
            /\ (T \notin DOMAIN m_clients /\ NumClients >= m_iMaxClients) =>
                  m_clients' = m_clients
            /\ T \in DOMAIN m_clients =>
                  /\ T \in DOMAIN m_clients'
                  /\ m_clients'[T].packets = Append(m_clients[T].packets, P)
                  /\ m_clients'[T].actions = m_clients[T].actions
                  /\ OthersSame(T)
    ]_vars

\* C2 witness: a valid packet for a new token has just been refused by a
\* full map
C2_Witness ==
    /\ pc = "events"
    /\ routed.outcome = "rejected"
    /\ NumClients = m_iMaxClients
    /\ TokenOf(dgram) \notin DOMAIN m_clients

\* C3: ProcessPacket on a packet that is not valid leaves the map, every
\* session and every queue as they were.
C3_InvalidIgnored ==
    [][(RouteStep /\ ~dgram'.valid) => m_clients' = m_clients]_vars

\* C3 witness: an invalid datagram with a token that has no session was
\* handled while the map had room
C3_Witness ==
    /\ pc = "events"
    /\ routed.outcome = "invalid"
    /\ TokenOf(dgram) \notin DOMAIN m_clients
    /\ NumClients < m_iMaxClients

\* C4: an accepted valid packet is filed under its client token when that is
\* not zero and under the number of the sender address otherwise, and under
\* no other key: token-0 packets of one address share a session, packets of
\* one address with distinct non-zero tokens do not.
C4_RoutingToken ==
    [][(RouteStep /\ dgram'.valid /\ m_clients' # m_clients) =>
        /\ dgram'.token # 0 => Touched(m_clients, m_clients') = {dgram'.token}
        /\ dgram'.token = 0 =>
              Touched(m_clients, m_clients') = {AddrULong(dgram'.addr)}
    ]_vars

\* C4 witness: a token-0 packet has joined the session an earlier packet of
\* its address created
C4_Witness ==
    /\ pc = "events"
    /\ routed.outcome = "existing"
    /\ dgram.token = 0
    /\ routed.key = AddrULong(dgram.addr)

\* C5: while a caller of ExecuteNextAction runs the executor it does not hold
\* m_critSection; the receive thread's next locked call can then go ahead.
C5_ExecutorOutsideLock ==
    \A c \in Callers : cpc[c] = "exec" =>
        /\ m_critSection # c
        /\ (pc = "events" /\ m_critSection = NoOwner) => ENABLED T_ProcessEvents

\* C5 witness: the executor runs on an action while the receive thread,
\* holding a newly routed packet, is about to take the lock for ProcessEvents
C5_Witness ==
    /\ \E c \in Callers : cpc[c] = "exec"
    /\ pc = "events"
    /\ routed.outcome = "existing"
    /\ m_critSection = NoOwner

\* a step of the receive thread that runs RefreshClients
SweepStep == pc = "refresh" /\ pc' = "loop"

\* a session that has had a packet within the liveness window
Live(session) == session.idle < LivenessWindow

\* C6: one RefreshClients call erases exactly the sessions that are not alive
\* when it is called, wherever they are in the map, and leaves the queues of
\* the others as they were.
C6_SweepRemovesExactlyDead ==
    [][SweepStep =>
        /\ DOMAIN m_clients' = {k \in DOMAIN m_clients : Live(m_clients[k])}
        /\ \A k \in DOMAIN m_clients' :
              /\ m_clients'[k].packets = m_clients[k].packets
              /\ m_clients'[k].actions = m_clients[k].actions
              /\ m_clients'[k].idle = m_clients[k].idle
    ]_vars

\* C6 witness: a sweep has just erased two dead sessions
C6_Witness ==
    /\ pc = "loop"
    /\ removed.by = "sweep"
    /\ Cardinality(removed.dead) >= 2

\* the sessions a step creates and destroys
Created == DOMAIN m_clients' \ DOMAIN m_clients
Destroyed == DOMAIN m_clients \ DOMAIN m_clients'

\* a step of the receive thread that runs Cleanup
CleanupStep ==
    \/ pc = "run" /\ pc' = "setup"
    \/ pc = "endcleanup" /\ pc' = "process"

\* C7 as claimed: no step destroys a session whose liveness window has not
\* elapsed.
C7_LiveSessionsKept ==
    [][\A k \in Destroyed : ~Live(m_clients[k])]_vars

\* C7 as amended: a session is created only by ProcessPacket on a valid
\* packet with its token while the map has room, and starts with that packet
\* alone; it is destroyed only by a sweep that finds it not alive or by the
\* Cleanup of a run, which empties the map whatever the sessions' liveness.
C7_Lifecycle ==
    [][/\ Created # {} =>
            /\ RouteStep
            /\ dgram'.valid
            /\ Created = {TokenOf(dgram')}
            /\ NumClients < m_iMaxClients
            /\ \A k \in Created :
                  /\ m_clients'[k].packets = <<[id |-> dgram'.id, kind |-> dgram'.kind]>>
                  /\ m_clients'[k].actions = <<>>
                  /\ Live(m_clients'[k])
       /\ Destroyed # {} =>
            \/ SweepStep /\ \A k \in Destroyed : ~Live(m_clients[k])
            \/ CleanupStep /\ m_clients' = EmptyMap
       /\ CleanupStep => m_clients' = EmptyMap
    ]_vars

\* C7 witness: the Cleanup that ends a run has just destroyed a live session
C7_Witness ==
    /\ pc = "process"
    /\ removed.by = "cleanup"
    /\ removed.alive # {}

\* the callers that hold action id, popped and not yet executed
Holders(id) == {c \in Callers : cpc[c] = "exec" /\ cact[c].id = id}

\* the number of queue positions that hold action id
QueuedCount(id) ==
    LET Slots(k) == {i \in 1..Len(m_clients[k].actions) : m_clients[k].actions[i].id = id}
        RECURSIVE Sum(_)
        Sum(K) == IF K = {} THEN 0
                  ELSE LET k == MinOf(K) IN Cardinality(Slots(k)) + Sum(K \ {k})
    IN  Sum(DOMAIN m_clients)

\* C8 as claimed: every action a session has produced is in a queue, in the
\* hands of one caller, or has been run by the executor, and by it once.
C8_ExactlyOnce ==
    \A id \in produced :
        /\ Len(executed[id]) <= 1
        /\ QueuedCount(id) + Cardinality(Holders(id)) + Len(executed[id]) = 1

\* C8 as amended: every action is run by the executor at most once, by the
\* one call that popped it, also with two callers at once; an action leaves
\* the queues either popped by a call or, never dispatched, with its session
\* when a sweep evicts that session or Cleanup empties the map.
C8_AtMostOnce ==
    /\ [](\A id \in PacketIds :
            /\ Len(executed[id]) <= 1
            /\ QueuedCount(id) + Cardinality(Holders(id)) + Len(executed[id]) <= 1)
    /\ [][\A k \in DOMAIN m_clients :
            \A i \in 1..Len(m_clients[k].actions) :
               LET id == m_clients[k].actions[i].id IN
               id \notin QueuedIds(m_clients') =>
                  \/ \E c \in Callers :
                        cpc[c] = "scan" /\ cpc'[c] = "exec" /\ cact'[c] = m_clients[k].actions[i]
                  \/ k \in Destroyed /\ (SweepStep \/ CleanupStep)
       ]_vars

\* C8 witness: two callers run the executor at the same time, each on an
\* action of its own
C8_Witness ==
    /\ \A c \in Callers : cpc[c] = "exec"
    /\ \A c, d \in Callers : c # d => cact[c].id # cact[d].id

\* the first session in key order that has a pending action
HasPending(k) == k \in DOMAIN m_clients /\ m_clients[k].actions # <<>>
FirstPending ==
    CHOOSE k \in DOMAIN m_clients :
        HasPending(k) /\ \A j \in DOMAIN m_clients : j < k => ~HasPending(j)

\* C9: a call pops the oldest action of the first session in key order that
\* has one, and nothing else; it runs the executor on it once, returns what
\* the executor returned and puts nothing back; with no pending action it
\* returns false and changes no session.
C9_DispatchOne ==
    [][\A c \in Callers :
        /\ (cpc[c] = "scan" /\ cpc'[c] # "scan") =>
              IF \E k \in DOMAIN m_clients : HasPending(k)
              THEN /\ cpc'[c] = "exec"
                   /\ cact'[c] = Head(m_clients[FirstPending].actions)
                   /\ m_clients'[FirstPending].actions =
                         Tail(m_clients[FirstPending].actions)
                   /\ OthersSame(FirstPending)
                   /\ executed' = executed
              ELSE /\ cpc'[c] = "idle"
                   /\ cret'[c] = "false"
                   /\ m_clients' = m_clients
                   /\ executed' = executed
        /\ (cpc[c] = "exec" /\ cpc'[c] # "exec") =>
              LET id == cact[c].id IN
              /\ cpc'[c] = "idle"
              /\ Len(executed'[id]) = Len(executed[id]) + 1
              /\ \A j \in PacketIds \ {id} : executed'[j] = executed[j]
              /\ cret'[c] = IF executed'[id][Len(executed'[id])] THEN "true" ELSE "false"
              /\ m_clients' = m_clients
    ]_vars

\* C9 witness: the executor failed on an action, the call returned false, the
\* action is in no queue and the session's next action still is
C9_Witness ==
    \E c \in Callers, id \in PacketIds :
        /\ cpc[c] = "idle"
        /\ cret[c] = "false"
        /\ executed[id] = <<FALSE>>
        /\ QueuedCount(id) = 0
        /\ QueuedIds(m_clients) # {}

\* the orders in which one iteration of the receive loop makes its calls
IterationOrders ==
    {<<>>,
     <<"Read", "ProcessPacket">>,
     <<"Read", "ProcessPacket", "ProcessEvents">>,
     <<"Read", "ProcessPacket", "ProcessEvents", "RefreshClients">>,
     <<"ProcessEvents">>,
     <<"ProcessEvents", "RefreshClients">>}

\* C10: an iteration reads at most one datagram, routes it before its
\* ProcessEvents and runs ProcessEvents before its RefreshClients; the session
\* that took the iteration's packet is in the map when the iteration ends.
C10_IterationOrder ==
    /\ iterLog \in IterationOrders
    /\ (pc = "loop" /\ routed.outcome \in {"new", "existing"}) =>
          /\ iterLog = <<"Read", "ProcessPacket", "ProcessEvents", "RefreshClients">>
          /\ routed.key \in DOMAIN m_clients

\* C10 witness: the sweep of an iteration has evicted a dead session and kept
\* the session the iteration's packet created
C10_Witness ==
    /\ pc = "loop"
    /\ routed.outcome = "new"
    /\ removed.by = "sweep"
    /\ removed.dead # {}
    /\ routed.key \in DOMAIN m_clients

\* a step in which Run returns to Process
RunReturns == pc \in {"setup", "endcleanup"} /\ pc' = "process"

\* C11: whenever Run returns, after a stop, after an exception and after a
\* startup that failed once the socket or the buffer had been acquired, the
\* socket has been closed and deleted and the packet buffer freed.
C11_ReleasedOnReturn ==
    [][RunReturns => (m_pSocket' = NULL /\ m_pPacketBuffer' = NULL)]_vars

\* a step in which Process begins a Run
RunBegins == pc = "process" /\ pc' = "run"

\* C12 as claimed: after a run that ended by an exception or by a failed
\* startup, no other run begins until the owner has called StartServer again.
C12_NoImplicitRestart ==
    [][(lastRun \in {"exception", "abort"}) => (~RunBegins)]_vars

\* C12 as amended: when a run has ended, by a stop, an exception or a failed
\* startup, Process begins the next run by itself unless stop has been
\* requested, in which case the thread ends; a run begins in no other way.
C12_RestartUnlessStopped ==
    [][/\ (pc = "process" /\ pc' # "process") =>
             IF m_bStop THEN pc' = "none" /\ ~threadAlive'
             ELSE pc' = "run" /\ threadAlive'
       /\ (pc' = "run" /\ pc # "run") => (pc = "process" /\ ~m_bStop)
    ]_vars

\* C12 witness: a run is beginning after an exception ended the last one, and
\* the owner has made no call since
C12_Witness == pc = "run" /\ lastRun = "exception" /\ ~m_bStop

\* the receive thread is inside the receive loop of Run
InLoop == pc \in {"loop", "listen", "events", "refresh"}

\* C13: once stop is requested while the thread is in the receive loop, and
\* every Listen returns, the thread enters no further wait or read after the
\* iteration under way, leaves the loop, runs Cleanup, and Process ends the
\* thread without beginning another run.
C13_StopEndsThread ==
    /\ [][(m_bStop /\ pc # "listen") => pc' # "listen"]_vars
    /\ [][(m_bStop /\ threadAlive) => (~RunBegins)]_vars
    /\ (m_bStop /\ InLoop) ~>
          (/\ pc = "none"
           /\ ~threadAlive
           /\ m_pSocket = NULL
           /\ m_pPacketBuffer = NULL
           /\ m_clients = EmptyMap)
    /\ (m_bStop /\ threadAlive) ~> ~threadAlive

\* C13 witness: stop was requested while the thread waited in Listen with a
\* session in the map
C13_Witness ==
    /\ m_bStop
    /\ pc = "listen"
    /\ m_clients # EmptyMap

\* C14: once StopServer has been called and the receive thread has finished,
\* whenever StopServer ran relative to the thread's startup, no announcement
\* of this server is registered with the discovery service.
C14_AnnouncementWithdrawn ==
    (m_bStop /\ ~threadAlive) => published = EmptyMap

\* C15: a sweep that finds a settings refresh requested calls RefreshSettings
\* on every session it keeps exactly once, also when it evicts sessions, and
\* calls it on none otherwise; the flag is false when the sweep returns.
C15_RefreshOnce ==
    [][SweepStep =>
        /\ \A k \in DOMAIN m_clients' :
              m_clients'[k].refreshed = IF m_bRefreshSettings THEN 1 ELSE 0
        /\ ~m_bRefreshSettings'
    ]_vars

\* the moves of one thread through Process and Run
ThreadMoves ==
    {<<"process", "run">>, <<"process", "none">>, <<"run", "setup">>,
     <<"setup", "process">>, <<"setup", "loop">>, <<"loop", "listen">>,
     <<"loop", "exit">>, <<"listen", "events">>, <<"listen", "exit">>,
     <<"events", "refresh">>, <<"refresh", "loop">>, <<"exit", "endcleanup">>,
     <<"endcleanup", "process">>}

InSection(c) == cpc[c] \in {"scan", "read"}

\* the steps in which the receive thread reads or changes the map: Cleanup,
\* ProcessPacket on a valid packet, ProcessEvents and RefreshClients
ThreadMapStep ==
    \/ CleanupStep
    \/ RouteStep /\ dgram'.valid
    \/ pc = "events" /\ pc' = "refresh"
    \/ SweepStep

\* the map without the clock of its sessions
Contents(clients) == [k \in DOMAIN clients |-> [clients[k] EXCEPT !.idle = 0]]

\* C17: a thread is inside a section that reads or changes the map exactly
\* while it holds m_critSection, so no two threads are in such a section at a
\* time; the map changes in such sections only; the holder of the lock does
\* not take it again.
C17_MapUnderLock ==
    /\ [](\A c \in Callers : InSection(c) <=> m_critSection = c)
    /\ [][/\ ThreadMapStep => \A c \in Callers : ~InSection(c)
          /\ Contents(m_clients') # Contents(m_clients) =>
                \/ ThreadMapStep /\ m_critSection = NoOwner
                \/ \E c \in Callers : m_critSection = c /\ cpc[c] = "scan"
          /\ \A c \in Callers :
                m_critSection = c => (cpc'[c] = "idle" \/ cpc'[c] = "exec" \/ cpc'[c] = cpc[c])
       ]_vars

\* C17 witness: GetNumberOfClients holds the lock on a map with a session
\* while the receive thread has a packet's events to process and a call of
\* ExecuteNextAction runs the executor
C17_Witness ==
    /\ cpc["c2"] = "read"
    /\ cpc["c1"] = "exec"
    /\ pc = "events"
    /\ m_clients # EmptyMap

\* C18: whatever the values of the port, the port range and the maximum of
\* clients in the settings, StartServer does not bring the host down, the
\* maximum in effect is not negative and the port range in effect is within
\* 1..100.
C18_SafeConfig ==
    /\ ~aborted
    /\ configured => m_iMaxClients >= 0
    /\ \A setting \in PortRangeSettings : PortRange(setting) \in 1..MaxPortRange

\* a step in which Run binds its socket and announces the service
PublishStep == pc = "setup" /\ pc' = "loop"

\* C19: the port Run announces is the port its socket is bound to, also when
\* the configured port is taken and Bind succeeds on a later port of the scan
\* range.
C19_PublishedPortIsBound ==
    [][(/\ PublishStep
        /\ PortAsserted(m_iPort)
        /\ "servers.eventserver" \notin DOMAIN published) =>
            published'["servers.eventserver"] = boundPort'
    ]_vars

\* a step of the receive thread that runs ProcessEvents
EventsStep == pc = "events" /\ pc' = "refresh"

\* the ids of the entries of a queue, in queue order
IdsOf(q) == [i \in 1..Len(q) |-> q[i].id]

\* the ids in a queue grow from head to tail: its entries are in the order
\* in which their packets arrived
InArrivalOrder(q) == \A i, j \in 1..Len(q) : i < j => q[i].id < q[j].id

\* the packets of a queue that carry an action
Carrying(q) == SelectSeq(q, LAMBDA p : p.kind \in {"exec", "button"})

\* C20: a ProcessEvents call runs the conversion of every session in the map
\* once, which moves the packets' actions behind the actions already queued,
\* in packet order; so in every session the actions of an earlier packet are
\* queued before those of a later one, and a call of ExecuteNextAction takes
\* the action of the earliest packet of the session it takes from.
C20_ProcessOnceInOrder ==
    /\ [][EventsStep =>
            /\ DOMAIN m_clients' = DOMAIN m_clients
            /\ \A k \in DOMAIN m_clients :
                  /\ m_clients'[k].processed = 1
                  /\ m_clients'[k].packets = <<>>
                  /\ IdsOf(m_clients'[k].actions) =
                        IdsOf(m_clients[k].actions) \o IdsOf(Carrying(m_clients[k].packets))
       ]_vars
    /\ [](\A k \in DOMAIN m_clients :
            /\ InArrivalOrder(m_clients[k].actions \o m_clients[k].packets))
    /\ [][\A c \in Callers : (cpc[c] = "scan" /\ cpc'[c] = "exec") =>
            \A k \in DOMAIN m_clients :
               m_clients'[k] # m_clients[k] =>
                  /\ cact'[c].id = m_clients[k].actions[1].id
                  /\ \A i \in 1..Len(m_clients'[k].actions) :
                        cact'[c].id < m_clients'[k].actions[i].id
                  /\ \A i \in 1..Len(m_clients'[k].packets) :
                        cact'[c].id < m_clients'[k].packets[i].id
       ]_vars

\* C20 witness: ProcessEvents has queued the action of a session's second
\* packet behind the action of its first
C20_Witness ==
    /\ pc = "refresh"
    /\ \E k \in DOMAIN m_clients :
          /\ Len(m_clients[k].actions) = 2
          /\ m_clients[k].processed = 1
          /\ m_clients[k].actions[1].id < m_clients[k].actions[2].id

====
